---- MODULE Spec2Model ----
(***************************************************************************)
(* Order engine of the laundry point-of-sale application: the web form     *)
(* handler new_order (app/pos_routes.py), the API handler create_order     *)
(* (app/api_routes.py), generate_order_number (app/utils.py) and the rows  *)
(* of app/models.py they write.                                            *)
(*                                                                         *)
(* Money.  Every amount is an integer number of thousandths of the         *)
(* currency unit, so 1.00 is 1000.  The columns are Numeric(10, 2): a      *)
(* value read back from a row is a multiple of Cent, the nearest one to    *)
(* the value the handler computed (Quantize).  A handler's own variables   *)
(* hold the exact value until the row is written.                          *)
(*                                                                         *)
(* Requests.  Each handler thread serves one request at a time, in the     *)
(* steps at which it talks to the store: it receives the request, builds   *)
(* the Order object (which counts today's orders), flushes the order row,  *)
(* and commits.  Steps of different threads interleave.  A session's       *)
(* flushed rows are invisible to the other sessions until its commit, and  *)
(* are discarded by a rollback and by the end of a request that never      *)
(* committed.                                                              *)
(*                                                                         *)
(* Exceptions.  Any statement inside a handler's try block may raise (a    *)
(* store failure, a lock timeout, a Python run-time error): Raise models   *)
(* the except branch taken from any step of a request.  The model follows  *)
(* the arithmetic and the control flow the statements denote; it does not  *)
(* model the operand types of Python's operators nor the NOT NULL check of *)
(* a column the handler fills in after the flush, both of which can only   *)
(* turn a step of the model into a Raise.                                  *)
(***************************************************************************)
EXTENDS Integers, Sequences, FiniteSets, Bags, TLC

(* ------------------------------ bounds -------------------------------- *)

\* Orders kept in the store before the model stops creating more.
MaxOrders == 2
\* Last calendar day (UTC) the clock reaches; day 1 is the first.
MaxDay == 2
\* Longest item list of a request.
MaxItems == 2
\* Manual ledger entries before the model stops adding more.
MaxManual == 1

\* Orders whose status is followed.
MaxTracked == 1
\* Tokens that clients hold before the model stops handing out more.
MaxTokens == 2
\* Requests to the login endpoints before the model stops serving more.
MaxRequests == 7
\* Login attempts whose answers are compared with each other.
MaxCompared == 3
\* Calls of create_backup before the model stops making more.
MaxBackups == 3
\* Calls of export_to_excel before the model stops making more.
MaxExports == 3

(* --------------------------- program constants ------------------------ *)

\* Seconds of a minute, an hour and a day (timedelta).
Minute == 60
Hour == 60 * Minute
Day == 24 * Hour
\* config.JWT_ACCESS_TOKEN_EXPIRES = timedelta(hours=24).
JWT_ACCESS_TOKEN_EXPIRES == 24 * Hour
PERMANENT_SESSION_LIFETIME == 24 * Hour
BACKUP_RETENTION_DAYS == 30
\* config.JWT_REFRESH_TOKEN_EXPIRES = timedelta(days=30).
JWT_REFRESH_TOKEN_EXPIRES == 30 * Day

\* Numeric(10, 2): two decimal places, i.e. a hundredth = 10 thousandths.
Cent == 10
\* tax_rate the application seeds the Settings row with (14.0 percent).
DefaultTaxRate == 14
\* Minimum width of the sequence part of an order number ({today_count:04d}).
SeqWidth == 4

(* ------------------------------ input sets ---------------------------- *)

\* The two handler threads of the web server.
Handlers == {"h1", "h2"}
\* Product rows of the catalog: id 1 exists; MissingProduct names no row.
ProductIds == {1}
MissingProduct == Cardinality(ProductIds) + 1
\* A blank product_id[] field of the web form ('').
Blank == 0
\* An item without the unit_price key.
NoPrice == -1
\* Catalog prices: 15.00 and 2.55; a product starts at 15.00.
Prices == {15000, 2550}
InitialPrice == CHOOSE p \in Prices : \A q \in Prices : q <= p
\* unit_price values an API request supplies: 0.004 and 12.00.
PriceOverrides == {4, 12000}
Quantities == {1, 2}
\* discount_amount values a request supplies: none and 5.00.
Discounts == {0, 5000}
\* The manual ledger entries staff make: <<type, category, amount>>.
ManualEntries == {<<"income", "sales", 7000>>, <<"expense", "supplies", 7000>>}

VARIABLES
    today,          \* the current UTC calendar day (datetime.utcnow().date())
    products,       \* products table: id -> price
    tax_rate,       \* Settings.tax_rate of the single Settings row
    orders,         \* committed rows of the orders table
    order_items,    \* committed rows of the order_items table
    transactions,   \* committed rows of the transactions table: row -> how many
    pc,             \* per handler thread: where its request stands
    loc,            \* per handler thread: the request and the handler's locals
    resp            \* per handler thread: the response to its last request

VARIABLES
    last_update,    \* the last status update request and what became of it
    now,            \* datetime.utcnow(), in seconds since the application started
    users,          \* users table: id -> "active", "inactive" or "absent" (no row)
    tokens,         \* the JWTs that clients hold
    verdict,        \* the last token verification: the token and the result
    limits,         \* the rate limiter's counters: endpoint -> address -> window
    login_log,      \* the login and token requests served so far, with their answers
    cookies,        \* per client address: the cookies its last login issued
    page,           \* per client address: its last request of a login_required page
    backup_files,   \* the backups directory: file name -> the invocation that wrote it
    backup_logs,    \* rows of the backup_logs table
    invocations,    \* the create_backup calls so far, in order
    categories,     \* ids of the committed rows of the categories table
    product_category, \* product id -> its category_id, None when it has no row
    deleting,       \* where the delete_category request in flight stands
    delete_resp,    \* the response to the last delete_category request
    api_resp,       \* the last request to an API endpoint and its answer
    product_cost,   \* product id -> the cost of its row
    product_resp,   \* the last product form submitted and its answer
    export_files,   \* the exports directory: file name -> the call that wrote it
    exports,        \* the export_to_excel calls so far, in order
    copying,        \* the file copy of a backup in progress: what it has read
    artifact        \* the content of the last backup file copied from the live store

\* The variables of order creation.
orderVars == <<today, products, tax_rate, orders, order_items, transactions, pc, loc, resp>>

\* The variables of token authentication.
authVars == <<users, tokens, verdict>>

\* The variables of the login endpoints.
loginVars == <<limits, login_log>>

\* The variables of the web session.
sessionVars == <<cookies, page>>

\* The variables of the backups.
backupVars == <<backup_files, backup_logs, invocations>>

\* The variables of the catalog's categories.
catalogVars == <<categories, product_category, deleting, delete_resp>>

\* The variables of the product forms, besides products and
\* product_category.
productVars == <<product_cost, product_resp>>

\* The variables of the Excel exports.
exportVars == <<export_files, exports>>

\* The variables of the file copy that create_backup makes.
copyVars == <<copying, artifact>>

\* The variables the order handlers neither read nor write.
rest == <<last_update, now, authVars, loginVars, sessionVars, backupVars, catalogVars, api_resp, productVars, exportVars, copyVars>>

\* What a status update leaves alone, besides the variables of order creation.
statusRest == <<now, authVars, loginVars, sessionVars, backupVars, catalogVars, api_resp, productVars, exportVars, copyVars>>

\* What the passing of time leaves alone.
clockRest == <<orderVars, last_update, authVars, loginVars, sessionVars, backupVars, catalogVars, api_resp, productVars, exportVars, copyVars>>

\* What the token operations leave alone, besides the clock and authVars.
authRest == <<orderVars, last_update, loginVars, sessionVars, backupVars, catalogVars, api_resp, productVars, exportVars, copyVars>>

\* What the login endpoints and the pages behind them leave alone, besides
\* the clock, users, loginVars and sessionVars.
loginRest == <<orderVars, last_update, tokens, verdict, backupVars, catalogVars, api_resp, productVars, exportVars, copyVars>>

\* What the backup functions leave alone, besides the clock and backupVars.
backupRest == <<orderVars, last_update, authVars, loginVars, sessionVars, catalogVars, api_resp, productVars, exportVars, copyVars>>

\* What the category and product handlers leave alone, besides catalogVars.
catalogRest == <<orderVars, last_update, now, authVars, loginVars, sessionVars, backupVars, api_resp, productVars, exportVars, copyVars>>

\* What a request to an API endpoint leaves alone when its view does not
\* run.
apiRest == <<orderVars, last_update, now, authVars, loginVars, sessionVars, backupVars, catalogVars, productVars, exportVars, copyVars>>

vars == <<today, products, tax_rate, orders, order_items, transactions, pc, loc, resp, rest>>

store == <<orders, order_items, transactions>>


(* --------------------------- pure functions --------------------------- *)

\* n / d rounded to the nearest integer, a tie away from zero (d > 0).
RoundDiv(n, d) ==
    IF n >= 0 THEN (2 * n + d) \div (2 * d)
              ELSE -((2 * (-n) + d) \div (2 * d))

\* The value a Numeric(10, 2) column gives back for the exact amount n.
Quantize(n) == Cent * RoundDiv(n, Cent)

\* The value a Numeric(10, 2) column gives back for the exact amount n / d.
QuantizeRatio(n, d) == Cent * RoundDiv(n, d * Cent)

RECURSIVE SumSeq(_)
\* Sum of a sequence of integers.
SumSeq(s) == IF s = <<>> THEN 0 ELSE s[1] + SumSeq(Tail(s))

RECURSIVE Digits(_)
\* Decimal digits of n >= 0, most significant first.
Digits(n) == IF n < 10 THEN <<n>> ELSE Append(Digits(n \div 10), n % 10)

RECURSIVE ZeroPad(_, _)
\* Python's {:0wd}: zeros on the left up to width w, never a truncation.
ZeroPad(s, w) == IF Len(s) >= w THEN s ELSE ZeroPad(<<0>> \o s, w)

\* f"ORD-{date_str}-{today_count:04d}"; a date is rendered as its day number.
FormatOrderNumber(day, count) == <<day>> \o ZeroPad(Digits(count), SeqWidth)

\* A numbering that starts the day's sequence at 0; C10 tells it from
\* generate_order_number.
generate_order_number_from_zero ==
    FormatOrderNumber(today, Cardinality({o \in orders : o.created_at = today}))

\* utils.generate_order_number: today's date and one more than the number of
\* (committed) orders whose created_at falls on today.
generate_order_number ==
    FormatOrderNumber(today, Cardinality({o \in orders : o.created_at = today}) + 1)

\* All sequences over S of length at most n.
SeqUpTo(S, n) == UNION {[1..k -> S] : k \in 0..n}

(* ------------------------------ requests ------------------------------ *)

\* One product_id[] / quantity[] pair of the web form; the form carries no
\* unit price.
WebItems ==
    [product_id : {Blank} \cup ProductIds \cup {MissingProduct},
     quantity : Quantities, unit_price : {NoPrice}]

\* One element of "items" of the API's JSON body.
ApiItems ==
    [product_id : ProductIds \cup {MissingProduct},
     quantity : Quantities, unit_price : {NoPrice} \cup PriceOverrides]

WebRequests ==
    [path : {"web"}, items : SeqUpTo(WebItems, MaxItems), discount : Discounts]

ApiRequests ==
    [path : {"api"}, items : SeqUpTo(ApiItems, MaxItems), discount : Discounts]

Item(p, q, u) == [product_id |-> p, quantity |-> q, unit_price |-> u]

WebRequest(items, d) == [path |-> "web", items |-> items, discount |-> d]

ApiRequest(items, d) == [path |-> "api", items |-> items, discount |-> d]

\* The requests the handler threads serve concurrently: of each path an
\* order of one product, an order of a product that has no row and one
\* without items, and an API order whose item has no unit_price.
BasicRequests ==
    {WebRequest(<<Item(1, 2, NoPrice)>>, 0),
     WebRequest(<<Item(MissingProduct, 1, NoPrice)>>, 0),
     WebRequest(<<>>, 0),
     ApiRequest(<<Item(1, 2, 12000)>>, 0),
     ApiRequest(<<Item(MissingProduct, 1, 12000)>>, 0),
     ApiRequest(<<Item(1, 2, NoPrice)>>, 0),
     ApiRequest(<<>>, 0)}

\* Rows the users table can hold: the seeded admin and one more account.
UserIds == {1, 2}
AdminId == CHOOSE u \in UserIds : \A v \in UserIds : u <= v

\* `return None` of verify_jwt_token and authenticate_user.
None == 0

\* No token has been verified yet.
NoVerdict == [token |-> <<>>, result |-> None]

\* The rate-limited endpoints: the web login and the API's token endpoint.
Endpoints == {"login", "token"}

\* Client addresses (get_remote_address).
Addresses == {"a", "b"}

\* The limiter has no counter for an address.
NoWindow == [count |-> 0, expires |-> 0]

\* Ids of rows of the categories table.
CategoryIds == {1, 2}

\* The category of the products that exist from the start.
FirstCategory == 1

\* Ids of rows of the products table: those of the price list and a later one.
CatalogProducts == ProductIds \cup {Cardinality(ProductIds) + 1}

\* No delete_category request is in flight.
NotDeleting == [state |-> "idle", id |-> None]

\* No delete_category request has been answered yet.
NoDeleteResponse == [id |-> None, result |-> "none"]

\* The tables of the database file that the order handlers write.
Tables == {"orders", "order_items", "transactions"}

\* No copy of the database file is in progress.
NotCopying == [state |-> "idle", first |-> {}, timestamp |-> 0,
               orders |-> {}, order_items |-> {}, transactions |-> EmptyBag]

\* No backup file has been copied from the live store yet.
NoArtifact == [id |-> 0, orders |-> {}, order_items |-> {}, transactions |-> EmptyBag]

\* No product form has been submitted yet.
NoProductResponse == [op |-> "none", price |-> 0, cost |-> 0, result |-> "none"]

\* A request without an Authorization header.
NoBearer == <<>>

\* No API endpoint has been asked yet.
NoApiResponse == [endpoint |-> "none", authenticated |-> FALSE, status |-> "none"]

\* A client that holds no cookie of the application.
NoCookies == [user_id |-> None, at |-> 0, remember |-> FALSE]

\* A client that has not asked for a page yet.
NoPage == [at |-> 0, login_at |-> 0, user |-> None]

\* No status update has been asked for yet.
NoUpdate == [id |-> 0, status |-> "none", result |-> "none"]

\* A handler thread with no request, and the locals of a request just received.
NoLocals ==
    [path |-> "none", items |-> <<>>, discount |-> 0, lines |-> <<>>,
     taxable |-> 0, rate |-> 0, order_number |-> <<>>, id |-> 0, created_at |-> 0,
     inserts |-> 0]

NoResponse == [status |-> "none", cause |-> "none", inserts |-> 0]

\* An answer: what the client gets (status) and the branch that produced it;
\* inserts is filled in when the answer is sent.
Response(status, cause) == [status |-> status, cause |-> cause, inserts |-> 0]

\* The answer of each path to a created order, and to the except branch.
Created(path) ==
    IF path = "web" THEN Response("flash_success", "none")
                    ELSE Response("201", "none")

Failed(path, cause) ==
    IF path = "web" THEN Response("flash_error", cause)
                    ELSE Response("500", cause)

(* ---------------------------- initial state --------------------------- *)

\* create_app: the tables exist, the Settings row is seeded with tax_rate
\* 14.0 (no handler writes it afterwards), the catalog has its products.
Init ==
    /\ today = 1
    /\ products = [p \in ProductIds |-> InitialPrice]
    /\ tax_rate = DefaultTaxRate
    /\ orders = {}
    /\ order_items = {}
    /\ transactions = EmptyBag
    /\ pc = [h \in Handlers |-> "idle"]
    /\ loc = [h \in Handlers |-> NoLocals]
    /\ resp = [h \in Handlers |-> NoResponse]
    /\ last_update = NoUpdate
    /\ now = 0
    /\ users = [u \in UserIds |-> IF u = AdminId THEN "active" ELSE "absent"]
    /\ tokens = {}
    /\ verdict = NoVerdict
    /\ limits = [e \in Endpoints |-> [a \in Addresses |-> NoWindow]]
    /\ login_log = <<>>
    /\ cookies = [a \in Addresses |-> NoCookies]
    /\ page = [a \in Addresses |-> NoPage]
    /\ backup_files = {}
    /\ backup_logs = {}
    /\ invocations = <<>>
    /\ categories = {FirstCategory}
    /\ product_category = [p \in CatalogProducts |->
                                IF p \in ProductIds THEN FirstCategory ELSE None]
    /\ deleting = NotDeleting
    /\ delete_resp = NoDeleteResponse
    /\ api_resp = NoApiResponse
    /\ product_cost = [p \in CatalogProducts |-> 0]
    /\ product_resp = NoProductResponse
    /\ export_files = {}
    /\ exports = <<>>
    /\ copying = NotCopying
    /\ artifact = NoArtifact


(* ------------------------------ the rows ------------------------------ *)

\* The items of the form that name a product (`if not product_id: continue`).
Effective(items) == SelectSeq(items, LAMBDA it : it.product_id # Blank)

\* One line of an order as the handler computes it: total_price is
\* unit_price * quantity.
Line(it, price) ==
    [product_id |-> it.product_id, quantity |-> it.quantity,
     unit_price |-> price, total_price |-> price * it.quantity]

\* new_order's loop: every line is priced at product.price.
WebLines(items) ==
    LET e == Effective(items)
    IN  [i \in 1..Len(e) |-> Line(e[i], products[e[i].product_id])]

\* create_order's loop: item_data.get('unit_price', product.price).
ApiLines(items) ==
    [i \in 1..Len(items) |->
        Line(items[i],
             IF items[i].unit_price = NoPrice
             THEN products[items[i].product_id]
             ELSE items[i].unit_price)]

\* total_amount += total_price, over the lines.
Subtotal(lines) == SumSeq([i \in 1..Len(lines) |-> lines[i].total_price])

\* tax_amount of each path for the amount left after the discount:
\* new_order takes (total_amount * tax_rate) / 100, create_order takes 0.
\* The result is the pair <<numerator, denominator>> of the exact value.
TaxOf(path, taxable, rate) ==
    IF path = "web" THEN <<taxable * rate, 100>> ELSE <<0, 100>>

\* The orders row of a request, as the store gives it back.
OrderRow(l) ==
    LET tax == TaxOf(l.path, l.taxable, l.rate)
    IN  [id |-> l.id,
         order_number |-> l.order_number,
         total_amount |-> QuantizeRatio(l.taxable * tax[2] + tax[1], tax[2]),
         tax_amount |-> QuantizeRatio(tax[1], tax[2]),
         discount_amount |-> Quantize(l.discount),
         status |-> "pending",
         created_at |-> l.created_at,
         completed_at |-> 0]

\* The order_items rows of a request.
ItemRows(l) ==
    {[order_id |-> l.id, line |-> i,
      product_id |-> l.lines[i].product_id,
      quantity |-> l.lines[i].quantity,
      unit_price |-> Quantize(l.lines[i].unit_price),
      total_price |-> Quantize(l.lines[i].total_price)] : i \in 1..Len(l.lines)}

\* A ledger entry that leaves the tax out of the amount; C2 tells it from
\* SalesTransaction.
SalesTransactionBeforeTax(order) ==
    [type |-> "income", category |-> "sales",
     amount |-> order.total_amount - order.tax_amount,
     reference_type |-> "order", reference_id |-> order.id]

\* The income transaction posted for an order: amount = order.total_amount.
SalesTransaction(order) ==
    [type |-> "income", category |-> "sales", amount |-> order.total_amount,
     reference_type |-> "order", reference_id |-> order.id]

\* A manual ledger entry of new_transaction.
ManualTransaction(type, category, amount) ==
    [type |-> type, category |-> category, amount |-> Quantize(amount),
     reference_type |-> "manual", reference_id |-> 0]

Max(S) == CHOOSE x \in S : \A y \in S : y <= x

\* The primary key the flush gives a new orders row: one that no row has,
\* committed or flushed.
NextOrderId ==
    Max({0} \cup {o.id : o \in orders} \cup {loc[h].id : h \in Handlers}) + 1

(* --------------------------- request handling -------------------------- *)

\* A handler thread gets a request.
Receive(h, rq) ==
    /\ pc[h] = "idle"
    /\ Cardinality(orders) + Cardinality({g \in Handlers : pc[g] # "idle"}) < MaxOrders
    /\ pc' = [pc EXCEPT ![h] = "received"]
    /\ loc' = [loc EXCEPT ![h] = [NoLocals EXCEPT !.path = rq.path,
                                   !.items = rq.items, !.discount = rq.discount]]
    /\ resp' = [resp EXCEPT ![h] = NoResponse]
    /\ UNCHANGED <<today, products, tax_rate, store>>
    /\ UNCHANGED rest

\* The request ends without a commit: the answer is sent and the session's
\* flushed rows are gone (rollback, or the session removed with the request).
Answer(h, r) ==
    /\ pc' = [pc EXCEPT ![h] = "idle"]
    /\ loc' = [loc EXCEPT ![h] = NoLocals]
    /\ resp' = [resp EXCEPT ![h] = [r EXCEPT !.inserts = loc[h].inserts]]
    /\ UNCHANGED <<today, products, tax_rate, store>>
    /\ UNCHANGED rest

\* new_order: `if not product_ids`.
new_order_no_items(h) ==
    /\ pc[h] = "received" /\ loc[h].path = "web"
    /\ loc[h].items = <<>>
    /\ Answer(h, Response("flash_no_items", "validation"))

\* new_order: Product.query.get gives None for a product id with no row, and
\* product.price raises; the except branch answers.
new_order_missing(h) ==
    /\ pc[h] = "received" /\ loc[h].path = "web"
    /\ loc[h].items # <<>>
    /\ \E i \in 1..Len(loc[h].items) :
            loc[h].items[i].product_id \notin {Blank} \cup DOMAIN products
    /\ Answer(h, Failed("web", "missing_product"))

\* new_order up to Order(order_number=generate_order_number(), ...): the
\* lines, the discount, the tax of the current Settings row, the number.
new_order_build(h) ==
    /\ pc[h] = "received" /\ loc[h].path = "web"
    /\ loc[h].items # <<>>
    /\ \A i \in 1..Len(loc[h].items) :
            loc[h].items[i].product_id \in {Blank} \cup DOMAIN products
    /\ LET lines == WebLines(loc[h].items)
       IN  loc' = [loc EXCEPT ![h] = [@ EXCEPT
                    !.lines = lines,
                    !.taxable = Subtotal(lines) - loc[h].discount,
                    !.rate = tax_rate,
                    !.order_number = generate_order_number]]
    /\ pc' = [pc EXCEPT ![h] = "numbered"]
    /\ UNCHANGED <<today, products, tax_rate, store, resp>>
    /\ UNCHANGED rest

\* create_order: order_schema.load rejects an item without unit_price
\* (OrderItemSchema.unit_price is required=True).
create_order_invalid(h) ==
    /\ pc[h] = "received" /\ loc[h].path = "api"
    /\ \E i \in 1..Len(loc[h].items) : loc[h].items[i].unit_price = NoPrice
    /\ Answer(h, Response("400", "validation"))

\* create_order: `if not data.get('items') or len(data['items']) == 0`.
create_order_no_items(h) ==
    /\ pc[h] = "received" /\ loc[h].path = "api"
    /\ loc[h].items = <<>>
    /\ Answer(h, Response("400", "validation"))

\* create_order up to Order(order_number=generate_order_number(), ...).
create_order_build(h) ==
    /\ pc[h] = "received" /\ loc[h].path = "api"
    /\ loc[h].items # <<>>
    /\ \A i \in 1..Len(loc[h].items) : loc[h].items[i].unit_price # NoPrice
    /\ loc' = [loc EXCEPT ![h] = [@ EXCEPT !.order_number = generate_order_number]]
    /\ pc' = [pc EXCEPT ![h] = "numbered"]
    /\ UNCHANGED <<today, products, tax_rate, store, resp>>
    /\ UNCHANGED rest

\* An INSERT into a table without the unique index on order_number; C4 tells
\* it from flush.
flush_without_unique_index(h) ==
    /\ pc[h] = "numbered"
    /\ loc' = [loc EXCEPT ![h] = [@ EXCEPT !.id = NextOrderId, !.created_at = today,
                                             !.inserts = @ + 1]]
    /\ pc' = [pc EXCEPT ![h] = "flushed"]
    /\ UNCHANGED <<today, products, tax_rate, store, resp>>
    /\ UNCHANGED rest

\* db.session.add(order); db.session.flush(): the INSERT of the orders row.
\* created_at takes the clock's value now.  While another session holds a
\* flushed row with the same order_number the INSERT waits for it.
flush(h) ==
    /\ pc[h] = "numbered"
    /\ \A g \in Handlers \ {h} :
            ~(pc[g] = "flushed" /\ loc[g].order_number = loc[h].order_number)
    /\ \A o \in orders : o.order_number # loc[h].order_number
    /\ loc' = [loc EXCEPT ![h] = [@ EXCEPT !.id = NextOrderId, !.created_at = today,
                                             !.inserts = @ + 1]]
    /\ pc' = [pc EXCEPT ![h] = "flushed"]
    /\ UNCHANGED <<today, products, tax_rate, store, resp>>
    /\ UNCHANGED rest

\* The INSERT violates the unique index on orders.order_number: IntegrityError,
\* caught by `except Exception`, rollback, the error answer.
flush_conflict(h) ==
    /\ pc[h] = "numbered"
    /\ \E o \in orders : o.order_number = loc[h].order_number
    /\ pc' = [pc EXCEPT ![h] = "idle"]
    /\ loc' = [loc EXCEPT ![h] = NoLocals]
    /\ resp' = [resp EXCEPT ![h] =
                    [Failed(loc[h].path, "integrity") EXCEPT !.inserts = loc[h].inserts + 1]]
    /\ UNCHANGED <<today, products, tax_rate, store>>
    /\ UNCHANGED rest

\* The commit of a request: the order, its items and its transaction become
\* visible together.
Commit(h, l) ==
    LET order == OrderRow(l)
    IN  /\ orders' = orders \cup {order}
        /\ order_items' = order_items \cup ItemRows(l)
        /\ transactions' = transactions (+) SetToBag({SalesTransaction(order)})
        /\ pc' = [pc EXCEPT ![h] = "idle"]
        /\ loc' = [loc EXCEPT ![h] = NoLocals]
        /\ resp' = [resp EXCEPT ![h] = [Created(l.path) EXCEPT !.inserts = l.inserts]]
        /\ UNCHANGED <<today, products, tax_rate>>
        /\ UNCHANGED rest

\* new_order after the flush: the items, the transaction, db.session.commit().
new_order_commit(h) ==
    /\ pc[h] = "flushed" /\ loc[h].path = "web"
    /\ Commit(h, loc[h])

\* An early return whose flushed order row gets committed all the same; C3
\* tells it from create_order_missing.
create_order_missing_committed(h) ==
    /\ pc[h] = "flushed" /\ loc[h].path = "api"
    /\ \E i \in 1..Len(loc[h].items) : loc[h].items[i].product_id \notin DOMAIN products
    /\ orders' = orders \cup {OrderRow(loc[h])}
    /\ pc' = [pc EXCEPT ![h] = "idle"]
    /\ loc' = [loc EXCEPT ![h] = NoLocals]
    /\ resp' = [resp EXCEPT ![h] =
                    [Response("400", "missing_product") EXCEPT !.inserts = loc[h].inserts]]
    /\ UNCHANGED <<today, products, tax_rate, order_items, transactions>>
    /\ UNCHANGED rest

\* create_order's loop finds an item whose product has no row: it returns
\* 400 with the order row flushed and neither commit nor rollback.
create_order_missing(h) ==
    /\ pc[h] = "flushed" /\ loc[h].path = "api"
    /\ \E i \in 1..Len(loc[h].items) : loc[h].items[i].product_id \notin DOMAIN products
    /\ Answer(h, Response("400", "missing_product"))

\* create_order after the flush: the items at the prices read now, the
\* discount, tax_amount = 0, the transaction, db.session.commit().
create_order_commit(h) ==
    /\ pc[h] = "flushed" /\ loc[h].path = "api"
    /\ \A i \in 1..Len(loc[h].items) : loc[h].items[i].product_id \in DOMAIN products
    /\ LET lines == ApiLines(loc[h].items)
       IN  Commit(h, [loc[h] EXCEPT !.lines = lines,
                                    !.taxable = Subtotal(lines) - loc[h].discount])

\* A statement of the handler raises: `except Exception`, rollback, the
\* error answer.
Raise(h) ==
    /\ pc[h] \in {"received", "numbered", "flushed"}
    /\ Answer(h, Failed(loc[h].path, "exception"))

(* ------------------------- the rest of the system ---------------------- *)

\* Midnight (UTC) passes.
Tick ==
    /\ today < MaxDay
    /\ today' = today + 1
    /\ UNCHANGED <<products, tax_rate, store, pc, loc, resp>>
    /\ UNCHANGED rest

\* edit_product: product.price = float(request.form.get('price')).
edit_product(p, price) ==
    /\ p \in DOMAIN products
    /\ products[p] # price
    /\ products' = [products EXCEPT ![p] = price]
    /\ UNCHANGED <<today, tax_rate, store, pc, loc, resp>>
    /\ UNCHANGED rest

\* Number of rows of the ledger whose value is in S.
CountRows(S) ==
    LET rows == S \cap BagToSet(transactions)
        counts == [t \in rows |-> CopiesIn(t, transactions)]
    IN  BagCardinality(counts)

\* Number of manual entries in the ledger.
ManualCount == CountRows({t \in BagToSet(transactions) : t.reference_type = "manual"})

\* new_transaction: a manual ledger entry (reference_type='manual').
new_transaction(type, category, amount) ==
    /\ ManualCount < MaxManual
    /\ transactions' = transactions (+) SetToBag({ManualTransaction(type, category, amount)})
    /\ UNCHANGED <<today, products, tax_rate, orders, order_items, pc, loc, resp>>
    /\ UNCHANGED rest

(* ---------------------------- status updates --------------------------- *)

\* The statuses both update_order_status handlers accept.
Statuses == <<"pending", "in_progress", "ready", "completed", "cancelled">>

\* Values of the status field of an update request: the five statuses and
\* one the handlers do not know.
StatusInputs == {Statuses[i] : i \in 1..Len(Statuses)} \cup {"shipped"}

\* A variant that also clears completed_at when the order leaves
\* 'completed'; C12 tells it from WithStatus.
WithStatusClearing(o, new_status) ==
    [o EXCEPT !.status = new_status,
              !.completed_at = IF new_status = "completed" THEN today ELSE 0]

\* A variant that takes the amount back when the order is cancelled; C30
\* tells it from WithStatus.
WithStatusRefunding(o, new_status) ==
    [o EXCEPT !.status = new_status,
              !.completed_at = IF new_status = "completed" THEN today ELSE @,
              !.total_amount = IF new_status = "cancelled" THEN 0 ELSE @]

\* order.status = new_status; completed_at = utcnow() if the new status is
\* 'completed' (and is left as it is otherwise).
WithStatus(o, new_status) ==
    [o EXCEPT !.status = new_status,
              !.completed_at = IF new_status = "completed" THEN today ELSE @]

\* update_order_status of either path for an id that has no row:
\* Order.query.get_or_404(id).
update_order_status_404(path, id) ==
    /\ \A o \in orders : o.id # id
    /\ last_update' = [id |-> id, status |-> "none", result |-> "404"]
    /\ UNCHANGED <<orderVars, statusRest>>

\* update_order_status of either path with a status outside the list: the
\* API answers 400 'Invalid status', the web handler flashes 'Invalid status.'.
update_order_status_invalid(path, id, new_status) ==
    /\ \E o \in orders : o.id = id
    /\ new_status \notin {Statuses[i] : i \in 1..Len(Statuses)}
    /\ last_update' = [id |-> id, status |-> new_status,
                       result |-> IF path = "api" THEN "400" ELSE "flash_invalid"]
    /\ UNCHANGED <<orderVars, statusRest>>

\* update_order_status of either path with a status of the list: the status
\* is assigned whatever the order's current status, and committed.
update_order_status(path, id, new_status) ==
    /\ new_status \in {Statuses[i] : i \in 1..Len(Statuses)}
    /\ \E o \in orders :
        /\ o.id = id
        /\ orders' = (orders \ {o}) \cup {WithStatus(o, new_status)}
    /\ last_update' = [id |-> id, status |-> new_status,
                       result |-> IF path = "api" THEN "200" ELSE "flash_success"]
    /\ UNCHANGED <<today, products, tax_rate, order_items, transactions, pc, loc, resp>>
    /\ UNCHANGED statusRest

(* ------------------------------ the clock ------------------------------ *)

\* Time passes until the instant t.
Pass(t) ==
    /\ t > now
    /\ now' = t
    /\ UNCHANGED clockRest

(* ------------------------- token authentication ------------------------ *)

\* A JWT: the payload fields the code reads, and the key that signed it.
Token(user_id, iat, lifetime, type, key) ==
    [user_id |-> user_id, iat |-> iat, exp |-> iat + lifetime, type |-> type, key |-> key]

\* A token issuer that gives access tokens the lifetime of refresh tokens;
\* C14 tells it from generate_jwt_token.
generate_jwt_token_long_lived(u) == Token(u, now, JWT_REFRESH_TOKEN_EXPIRES, "access", "secret")

\* auth.generate_jwt_token: exp = utcnow() + JWT_ACCESS_TOKEN_EXPIRES,
\* type 'access', signed with JWT_SECRET_KEY.
generate_jwt_token(u) == Token(u, now, JWT_ACCESS_TOKEN_EXPIRES, "access", "secret")

\* auth.generate_refresh_token: exp = utcnow() + JWT_REFRESH_TOKEN_EXPIRES,
\* type 'refresh', the same key.
generate_refresh_token(u) == Token(u, now, JWT_REFRESH_TOKEN_EXPIRES, "refresh", "secret")

\* jwt.decode(token, JWT_SECRET_KEY, algorithms=['HS256']): the outcomes it
\* can have.  A wrong signature is an InvalidTokenError; a token past its
\* exp is an ExpiredSignatureError; at the very second of exp the outcome
\* depends on the library version.
Decode(token) ==
    IF token.key # "secret" THEN {"invalid"}
    ELSE IF now > token.exp THEN {"expired"}
    ELSE IF now = token.exp THEN {"expired", "payload"}
    ELSE {"payload"}

\* A verification that does not look at the type of the token; C13 tells
\* it from verify_jwt_token.
verify_jwt_token_any_type(token) ==
    {IF d = "payload" /\ users[token.user_id] = "active" THEN token.user_id ELSE None
        : d \in Decode(token)}

\* auth.verify_jwt_token: the results it can give for a token, the user (id)
\* or None.
verify_jwt_token(token) ==
    {IF d = "payload" /\ token.type = "access" /\ users[token.user_id] = "active"
     THEN token.user_id ELSE None
        : d \in Decode(token)}

\* get_token with the right password of an active user: the client gets an
\* access token and a refresh token.
get_token(u) ==
    /\ Cardinality(tokens) < MaxTokens
    /\ users[u] = "active"
    /\ tokens' = tokens \cup {generate_jwt_token(u), generate_refresh_token(u)}
    /\ UNCHANGED <<authRest, now, users, verdict>>

\* Somebody without the secret makes up a token.
forge_token(u) ==
    /\ Cardinality(tokens) < MaxTokens
    /\ tokens' = tokens \cup {Token(u, now, JWT_ACCESS_TOKEN_EXPIRES, "access", "forged")}
    /\ UNCHANGED <<authRest, now, users, verdict>>

\* An administrator of the database adds, deactivates, reactivates or
\* removes the row of a user (the application has no handler for it).
set_user(u, state) ==
    /\ users[u] # state
    /\ users' = [users EXCEPT ![u] = state]
    /\ UNCHANGED <<authRest, now, tokens, verdict>>

\* jwt_required: verify_jwt_token(token) for the bearer token of a request.
jwt_required(token) ==
    /\ token \in tokens
    /\ \E r \in verify_jwt_token(token) :
            verdict' = [token |-> token, result |-> r]
    /\ UNCHANGED <<authRest, now, users, tokens>>

(* ----------------------------- API endpoints --------------------------- *)

\* The routes of api_v1_bp decorated with @jwt_required.
JwtRequired ==
    {"GET /categories", "GET /categories/<id>", "GET /products", "GET /products/<id>",
     "GET /customers", "POST /customers", "GET /customers/<id>", "GET /orders",
     "POST /orders", "GET /orders/<id>", "PUT /orders/<id>/status",
     "GET /reports/daily", "GET /reports/weekly"}

\* The routes of api_v1_bp without the decorator, besides /health and
\* /auth/token.
Undecorated == {"POST /auth/refresh"}

\* A request to a route behind jwt_required: 401 'Token is missing' without
\* a bearer token, 401 'Token is invalid or expired' when verify_jwt_token
\* returns None, else the view runs (its own effects are not part of this
\* step).
api_request(endpoint, bearer) ==
    /\ endpoint \in JwtRequired
    /\ bearer = NoBearer \/ bearer \in tokens
    /\ \E user \in (IF bearer = NoBearer THEN {None} ELSE verify_jwt_token(bearer)) :
            api_resp' = [endpoint |-> endpoint, authenticated |-> user # None,
                         status |-> IF user = None THEN "401" ELSE "200"]
    /\ UNCHANGED apiRest

\* api_routes.refresh_token: no decorator; 400 without a refresh_token in
\* the body, else 501, whatever the Authorization header.
refresh_token(bearer, has_refresh_token) ==
    /\ bearer = NoBearer \/ bearer \in tokens
    /\ api_resp' = [endpoint |-> "POST /auth/refresh", authenticated |-> FALSE,
                    status |-> IF has_refresh_token THEN "501" ELSE "400"]
    /\ UNCHANGED apiRest

\* api_routes.health_check: no decorator, 200.
health_check ==
    /\ api_resp' = [endpoint |-> "GET /health", authenticated |-> FALSE, status |-> "200"]
    /\ UNCHANGED apiRest

(* ---------------------------- login endpoints -------------------------- *)

\* @limiter.limit("5 per minute") of login, ("10 per minute") of get_token.
Limit(endpoint) == IF endpoint = "login" THEN 5 ELSE 10

\* The limiter's counter of an address after one more request: a window
\* lasts a minute from the request that opened it (fixed-window strategy).
Hit(endpoint, addr) ==
    LET w == limits[endpoint][addr]
    IN  IF w.count = 0 \/ now >= w.expires
        THEN [count |-> 1, expires |-> now + Minute]
        ELSE [w EXCEPT !.count = @ + 1]

\* The request is over the limit: it is answered 429 and the view does not run.
Limited(endpoint, addr) == Hit(endpoint, addr).count > Limit(endpoint)

\* What the credentials of a request are, given the users table: those of
\* no user, of an inactive user, a wrong password, or right.
Fact(u, password) ==
    IF users[u] = "absent" THEN "no_user"
    ELSE IF users[u] = "inactive" THEN "inactive"
    ELSE IF password # "right" THEN "wrong_password"
    ELSE "ok"

\* auth.authenticate_user, and the same two lines of login: the active user
\* of that name if the password matches its hash, else None.
authenticate_user(u, password) ==
    IF users[u] = "active" /\ password = "right" THEN u ELSE None

\* An authentication that tells a disabled account apart; C16 tells it from
\* the answer of login.
LoginAnswerNamingInactive(u, password) ==
    IF authenticate_user(u, password) # None
    THEN [status |-> "302", message |-> "Login successful!"]
    ELSE IF users[u] = "inactive"
    THEN [status |-> "200", message |-> "Account is disabled."]
    ELSE [status |-> "200", message |-> "Invalid username or password."]

\* What login answers to a POST of a valid form that is within the limit.
LoginAnswer(u, password) ==
    IF authenticate_user(u, password) # None
    THEN [status |-> "302", message |-> "Login successful!"]
    ELSE [status |-> "200", message |-> "Invalid username or password."]

\* What get_token answers to a request with both fields, within the limit.
TokenAnswer(u, password) ==
    IF authenticate_user(u, password) # None
    THEN [status |-> "200", message |-> "access_token"]
    ELSE [status |-> "401", message |-> "Invalid credentials"]

\* The answer of the limiter to a request over the limit.
TooManyRequests == [status |-> "429", message |-> "Too Many Requests"]

\* A limiter that never refuses; C15 tells it from Served.
ServedUnlimited(endpoint, addr, u, password, answer) ==
    /\ Len(login_log) < MaxRequests
    /\ limits' = [limits EXCEPT ![endpoint][addr] = Hit(endpoint, addr)]
    /\ login_log' = Append(login_log,
            [endpoint |-> endpoint, addr |-> addr, at |-> now,
             fact |-> Fact(u, password), answer |-> answer])
    /\ UNCHANGED <<loginRest, now, users>>

\* A request to a limited endpoint is counted, answered (429 when over the
\* limit, else by the view) and logged.
Served(endpoint, addr, u, password, answer) ==
    /\ Len(login_log) < MaxRequests
    /\ limits' = [limits EXCEPT ![endpoint][addr] = Hit(endpoint, addr)]
    /\ login_log' = Append(login_log,
            [endpoint |-> endpoint, addr |-> addr, at |-> now,
             fact |-> Fact(u, password),
             answer |-> IF Limited(endpoint, addr) THEN TooManyRequests ELSE answer])
    /\ UNCHANGED <<loginRest, now, users>>

\* login_user(user, remember=True) and session.permanent = True: the
\* response carries a session cookie signed now that holds the user id, and
\* a remember cookie that holds the user id.
login_user(u) == [user_id |-> u, at |-> now, remember |-> TRUE]

\* pos_routes.login, POST of username and password by a client that is not
\* logged in.
login(addr, u, password) ==
    /\ Served("login", addr, u, password, LoginAnswer(u, password))
    /\ cookies' = IF ~Limited("login", addr) /\ authenticate_user(u, password) # None
                  THEN [cookies EXCEPT ![addr] = login_user(u)]
                  ELSE cookies
    /\ UNCHANGED page

\* api_routes.get_token with credentials that authenticate_user refuses.
get_token_refused(addr, u, password) ==
    /\ authenticate_user(u, password) = None
    /\ Served("token", addr, u, password, TokenAnswer(u, password))
    /\ UNCHANGED sessionVars

(* ------------------------------ web session --------------------------- *)

\* The user id that Flask reads from the session cookie: the cookie is
\* refused once it is older than PERMANENT_SESSION_LIFETIME.
SessionUser(jar) ==
    IF jar.user_id # None /\ now - jar.at <= PERMANENT_SESSION_LIFETIME
    THEN jar.user_id ELSE None

\* The user id that Flask-Login reads from the remember cookie, which
\* carries the user id and a signature, and no date.
RememberedUser(jar) == IF jar.remember THEN jar.user_id ELSE None

\* current_user of a request with the cookies of jar: the user of the
\* session, else the user of the remember cookie, loaded by load_user.
CurrentUser(jar) ==
    LET user_id == IF SessionUser(jar) # None THEN SessionUser(jar)
                   ELSE RememberedUser(jar)
    IN  IF user_id # None /\ users[user_id] # "absent" THEN user_id ELSE None

\* pos_routes.dashboard behind @login_required, asked for with the cookies
\* that the login issued: served to current_user, or redirected to login.
dashboard(addr) ==
    /\ page' = [page EXCEPT ![addr] =
            [at |-> now, login_at |-> cookies[addr].at,
             user |-> CurrentUser(cookies[addr])]]
    /\ UNCHANGED <<loginRest, now, users, loginVars, cookies>>

\* pos_routes.logout behind @login_required: logout_user() empties the
\* session and clears the remember cookie.
logout(addr) ==
    /\ CurrentUser(cookies[addr]) # None
    /\ cookies' = [cookies EXCEPT ![addr] = NoCookies]
    /\ UNCHANGED <<loginRest, now, users, loginVars, page>>

(* -------------------------------- backups ----------------------------- *)

\* datetime.utcnow().strftime('%Y%m%d_%H%M%S'): the clock to the second,
\* which is the unit of now.
Timestamp == now

\* f'laundry_pos_backup_{timestamp}.db', the name of a backup file.
BackupFilename == <<"laundry_pos_backup", Timestamp>>

\* f'backup_{timestamp}', the name logged for a failed backup.
FailedFilename == <<"backup", Timestamp>>

\* The backups directory after a file of that name is written by that
\* invocation: shutil.copy2 replaces a file of the same name.
WriteFile(files, name, id) ==
    {f \in files : f.name # name} \cup {[name |-> name, written_by |-> id]}

\* BackupLog.query.filter(BackupLog.created_at < cutoff_date) of
\* cleanup_old_backups.
OldBackups(logs, retention_days) ==
    {b \in logs : b.created_at < now - retention_days * Day}

\* The directory after cleanup_old_backups removed the files of those rows.
WithoutFilesOf(files, old) ==
    {f \in files : \A b \in old : b.filename # f.name}

\* create_backup when the copy succeeds: the database file is copied to a
\* file named by the second, a 'success' row is logged, and
\* cleanup_old_backups() runs with its default retention.
create_backup ==
    /\ Len(invocations) < MaxBackups
    /\ LET id == Len(invocations) + 1
           written == WriteFile(backup_files, BackupFilename, id)
           logged == backup_logs \cup
                {[id |-> id, filename |-> BackupFilename, status |-> "success",
                  created_at |-> now]}
           old == OldBackups(logged, BACKUP_RETENTION_DAYS)
       IN  /\ backup_files' = WithoutFilesOf(written, old)
           /\ backup_logs' = logged \ old
           /\ invocations' = Append(invocations,
                [id |-> id, filename |-> BackupFilename, status |-> "success", at |-> now])
    /\ UNCHANGED <<backupRest, now>>

\* create_backup when the copy raises: a 'failed' row named backup_<second>
\* is logged and the exception is raised again.
create_backup_failed ==
    /\ Len(invocations) < MaxBackups
    /\ LET id == Len(invocations) + 1
       IN  /\ backup_logs' = backup_logs \cup
                {[id |-> id, filename |-> FailedFilename, status |-> "failed",
                  created_at |-> now]}
           /\ invocations' = Append(invocations,
                [id |-> id, filename |-> FailedFilename, status |-> "failed", at |-> now])
    /\ UNCHANGED <<backupRest, now, backup_files>>

\* cleanup_old_backups(retention_days), as weekly_cleanup_task calls it with
\* 30 and as any caller may with another value.
cleanup_old_backups(retention_days) ==
    /\ LET old == OldBackups(backup_logs, retention_days)
       IN  /\ backup_files' = WithoutFilesOf(backup_files, old)
           /\ backup_logs' = backup_logs \ old
    /\ UNCHANGED <<backupRest, now, invocations>>

(* ------------------------------ categories --------------------------- *)

\* category.products: the rows of products whose category_id is the id.
ProductsOf(id) == {p \in CatalogProducts : product_category[p] = id}

\* Whether the database enforces products.category_id -> categories.id:
\* SQLite, the default DATABASE_URL, does not; PostgreSQL does.
ForeignKeys == BOOLEAN

\* new_category: a row is added to categories.
new_category(id) ==
    /\ id \notin categories
    /\ categories' = categories \cup {id}
    /\ UNCHANGED <<catalogRest, product_category, deleting, delete_resp>>

\* new_product with a category chosen from the form's choices, which are
\* the categories that exist.
new_product(p, category_id) ==
    /\ product_category[p] = None
    /\ category_id \in categories
    /\ product_category' = [product_category EXCEPT ![p] = category_id]
    /\ UNCHANGED <<catalogRest, categories, deleting, delete_resp>>

\* edit_product's product.category_id = int(request.form.get('category_id'))
\* and commit: the product moves to that category. With foreign keys
\* enforced the commit of a category_id without a row raises and is rolled
\* back.
move_product(p, category_id, foreign_keys) ==
    /\ product_category[p] \notin {None, category_id}
    /\ product_category' =
            IF foreign_keys /\ category_id \notin categories
            THEN product_category
            ELSE [product_category EXCEPT ![p] = category_id]
    /\ UNCHANGED <<catalogRest, categories, deleting, delete_resp>>

\* delete_category, get_or_404 of a missing row.
delete_category_404(id) ==
    /\ deleting.state = "idle"
    /\ id \notin categories
    /\ delete_resp' = [id |-> id, result |-> "404"]
    /\ UNCHANGED <<catalogRest, categories, product_category, deleting>>

\* delete_category up to "if category.products": the request is rejected
\* when the category has products, else it goes on to delete.
delete_category_check(id) ==
    /\ deleting.state = "idle"
    /\ id \in categories
    /\ IF ProductsOf(id) # {}
       THEN /\ delete_resp' = [id |-> id, result |-> "rejected"]
            /\ UNCHANGED deleting
       ELSE /\ deleting' = [state |-> "checked", id |-> id]
            /\ UNCHANGED delete_resp
    /\ UNCHANGED <<catalogRest, categories, product_category>>

\* delete_category from db.session.delete(category) to the response: the
\* row is deleted; with foreign keys enforced, the commit raises when a
\* product references the row, and the handler rolls back.
delete_category_commit(foreign_keys) ==
    /\ deleting.state = "checked"
    /\ IF foreign_keys /\ ProductsOf(deleting.id) # {}
       THEN /\ delete_resp' = [id |-> deleting.id, result |-> "error"]
            /\ UNCHANGED categories
       ELSE /\ delete_resp' = [id |-> deleting.id, result |-> "deleted"]
            /\ categories' = categories \ {deleting.id}
    /\ deleting' = NotDeleting
    /\ UNCHANGED <<catalogRest, product_category>>

(* --------------------------- the copy of a backup --------------------- *)

\* What the copy of the database file leaves alone, besides backupVars and
\* copyVars.
copyRest ==
    <<orderVars, last_update, now, authVars, loginVars, sessionVars, catalogVars,
      api_resp, productVars, exportVars>>

\* create_backup up to the middle of shutil.copy2(db_path, backup_filename):
\* the name is made, and the copy, which takes no lock and reads the file
\* from its start, has read the pages of the tables in first.
create_backup_copy_first(first) ==
    /\ copying.state = "idle"
    /\ Len(invocations) < MaxBackups
    /\ copying' = [state |-> "reading", first |-> first, timestamp |-> Timestamp,
                   orders |-> orders, order_items |-> order_items,
                   transactions |-> transactions]
    /\ UNCHANGED <<copyRest, backupVars, artifact>>

\* create_backup from the rest of the copy to its end: the pages of the
\* other tables are read as they are now, the file is complete, the
\* 'success' row is logged and cleanup_old_backups() runs.
create_backup_copy_rest ==
    /\ copying.state = "reading"
    /\ LET id == Len(invocations) + 1
           name == <<"laundry_pos_backup", copying.timestamp>>
           logged == backup_logs \cup
                {[id |-> id, filename |-> name, status |-> "success", created_at |-> now]}
           old == OldBackups(logged, BACKUP_RETENTION_DAYS)
       IN  /\ backup_files' = WithoutFilesOf(WriteFile(backup_files, name, id), old)
           /\ backup_logs' = logged \ old
           /\ invocations' = Append(invocations,
                [id |-> id, filename |-> name, status |-> "success", at |-> now])
           /\ artifact' =
                [id |-> id,
                 orders |-> IF "orders" \in copying.first THEN copying.orders ELSE orders,
                 order_items |-> IF "order_items" \in copying.first
                                 THEN copying.order_items ELSE order_items,
                 transactions |-> IF "transactions" \in copying.first
                                  THEN copying.transactions ELSE transactions]
    /\ copying' = NotCopying
    /\ UNCHANGED copyRest

(* -------------------------------- exports ----------------------------- *)

\* What export_to_excel leaves alone.
exportRest ==
    <<orderVars, last_update, now, authVars, loginVars, sessionVars, backupVars,
      catalogVars, api_resp, productVars, copyVars>>

\* The periods that export_to_excel names.
Periods == {"daily", "weekly", "monthly"}

\* start_date of export_to_excel: midnight of today for 'daily', 7 and 30
\* days back for 'weekly' and 'monthly', and one day back for any other
\* period (the else branch).
StartDate(period) ==
    IF period = "daily" THEN now - (now % Day)
    ELSE IF period = "weekly" THEN now - 7 * Day
    ELSE IF period = "monthly" THEN now - 30 * Day
    ELSE now - Day

\* f'exports/elhoseny_report_{period}_{timestamp}.xlsx'.
ExportFilename(period) == <<"elhoseny_report", period, Timestamp>>

\* export_to_excel(period, language) that runs to its end: the workbook is
\* written under the name of the period and the second, replacing a file
\* of that name, and the name is returned.
export_to_excel(period) ==
    /\ Len(exports) < MaxExports
    /\ LET id == Len(exports) + 1
       IN  /\ export_files' = WriteFile(export_files, ExportFilename(period), id)
           /\ exports' = Append(exports,
                [id |-> id, period |-> period, start_date |-> StartDate(period),
                 result |-> "returned", filename |-> ExportFilename(period)])
    /\ UNCHANGED exportRest

\* export_to_excel when a query or the writer raises: the exception is
\* logged and raised again, whatever its class.
export_to_excel_raises(period) ==
    /\ Len(exports) < MaxExports
    /\ exports' = Append(exports,
            [id |-> Len(exports) + 1, period |-> period, start_date |-> StartDate(period),
             result |-> "Exception", filename |-> <<>>])
    /\ UNCHANGED <<exportRest, export_files>>

(* ----------------------------- product forms -------------------------- *)

\* What the product forms leave alone.
productRest ==
    <<today, tax_rate, store, pc, loc, resp, last_update, now, authVars, loginVars,
      sessionVars, backupVars, categories, deleting, delete_resp, api_resp, exportVars,
      copyVars>>

\* ProductForm.validate_on_submit: price DataRequired and NumberRange(min=0)
\* (a price of 0 is not "data"), cost Optional and NumberRange(min=0),
\* category_id one of the choices, which are the categories that exist.
ProductFormValid(category_id, price, cost) ==
    /\ price > 0
    /\ cost >= 0
    /\ category_id \in categories

\* new_product with a form that does not validate: the page is rendered
\* again and nothing is stored.
new_product_invalid(p, category_id, price, cost) ==
    /\ p \notin DOMAIN products
    /\ ~ProductFormValid(category_id, price, cost)
    /\ product_resp' = [op |-> "new", price |-> price, cost |-> cost, result |-> "invalid"]
    /\ UNCHANGED <<productRest, products, product_category, product_cost>>

\* new_product with a form that validates: the row is stored with the
\* form's category, price and cost.
new_product_valid(p, category_id, price, cost) ==
    /\ p \notin DOMAIN products
    /\ ProductFormValid(category_id, price, cost)
    /\ products' = [q \in DOMAIN products \cup {p} |-> IF q = p THEN price ELSE products[q]]
    /\ product_category' = [product_category EXCEPT ![p] = category_id]
    /\ product_cost' = [product_cost EXCEPT ![p] = cost]
    /\ product_resp' = [op |-> "new", price |-> price, cost |-> cost, result |-> "created"]
    /\ UNCHANGED productRest

\* edit_product as a whole: category_id, price and cost are converted from
\* request.form with int() and float() and assigned; the commit raises, and
\* is rolled back, only when foreign keys are enforced and the category has
\* no row.
edit_product_form(p, category_id, price, cost, foreign_keys) ==
    /\ p \in DOMAIN products
    /\ IF foreign_keys /\ category_id \notin categories
       THEN /\ product_resp' = [op |-> "edit", price |-> price, cost |-> cost, result |-> "error"]
            /\ UNCHANGED <<products, product_category, product_cost>>
       ELSE /\ products' = [products EXCEPT ![p] = price]
            /\ product_category' = [product_category EXCEPT ![p] = category_id]
            /\ product_cost' = [product_cost EXCEPT ![p] = cost]
            /\ product_resp' = [op |-> "edit", price |-> price, cost |-> cost, result |-> "updated"]
    /\ UNCHANGED productRest

\* A retention job that removes the manual entries of the ledger; C21
\* tells it from weekly_cleanup_task.
weekly_cleanup_task_removing_manual ==
    /\ LET old == OldBackups(backup_logs, BACKUP_RETENTION_DAYS)
       IN  /\ backup_files' = WithoutFilesOf(backup_files, old)
           /\ backup_logs' = backup_logs \ old
    /\ transactions' = SetToBag({t \in BagToSet(transactions) : t.reference_type # "manual"})
    /\ UNCHANGED <<today, products, tax_rate, orders, order_items, pc, loc, resp>>
    /\ UNCHANGED <<last_update, now, authVars, loginVars, sessionVars, invocations, catalogVars, api_resp, productVars, exportVars, copyVars>>

\* tasks.weekly_cleanup_task: cleanup_old_backups(retention_days=30), then
\* the manual transactions older than a year are counted and left in place.
weekly_cleanup_task ==
    /\ LET old == OldBackups(backup_logs, BACKUP_RETENTION_DAYS)
       IN  /\ backup_files' = WithoutFilesOf(backup_files, old)
           /\ backup_logs' = backup_logs \ old
    /\ transactions' = transactions
    /\ UNCHANGED <<today, products, tax_rate, orders, order_items, pc, loc, resp>>
    /\ UNCHANGED <<last_update, now, authVars, loginVars, sessionVars, invocations, catalogVars, api_resp, productVars, exportVars, copyVars>>

\* What a handler thread does with the request it holds.
Handle(h) ==
    \/ new_order_no_items(h)
    \/ new_order_missing(h)
    \/ new_order_build(h)
    \/ create_order_invalid(h)
    \/ create_order_no_items(h)
    \/ create_order_build(h)
    \/ flush(h)
    \/ new_order_commit(h)
    \/ create_order_missing(h)
    \/ create_order_commit(h)
    \/ Raise(h)

\* The server: both handler threads, serving the basic requests.
Next ==
    \/ \E h \in Handlers, rq \in BasicRequests : Receive(h, rq)
    \/ \E h \in Handlers : Handle(h)
    \/ \E h \in Handlers : flush_conflict(h)
    \/ Tick
    \/ \E e \in ManualEntries : new_transaction(e[1], e[2], e[3])

Spec == Init /\ [][Next]_vars

\* One handler thread, serving every request of the input sets, one at a
\* time, while the catalog is edited.
NextCalc ==
    \/ \E rq \in WebRequests \cup ApiRequests : Receive("h1", rq)
    \/ Handle("h1")
    \/ \E p \in ProductIds, price \in Prices : edit_product(p, price)

SpecCalc == Init /\ [][NextCalc]_vars

\* One handler thread, serving the basic requests one at a time while the
\* days pass.
NextSeq ==
    \/ \E rq \in BasicRequests : Receive("h1", rq)
    \/ Handle("h1")
    \/ Tick

SpecSeq == Init /\ [][NextSeq]_vars

\* Ids a status update names: those of the orders and one past them.
OrderIds == 1..(MaxTracked + 1)

\* A web request for an order whose status staff will follow.
receive_tracked_order ==
    /\ Cardinality(orders) < MaxTracked
    /\ Receive("h1", WebRequest(<<Item(1, 2, NoPrice)>>, 0))

\* Orders of one product created one at a time on the web path, and staff
\* updating their status on either path, while the days pass.
NextStatus ==
    \/ receive_tracked_order
    \/ new_order_build("h1")
    \/ flush("h1")
    \/ new_order_commit("h1")
    \/ Tick
    \/ \E path \in {"web", "api"}, id \in OrderIds : update_order_status_404(path, id)
    \/ \E path \in {"web", "api"}, id \in OrderIds, st \in StatusInputs :
            update_order_status_invalid(path, id, st)
    \/ \E path \in {"web", "api"}, id \in OrderIds, st \in StatusInputs :
            update_order_status(path, id, st)

SpecStatus == Init /\ [][NextStatus]_vars

\* Requests whose numbers no cashier means: a negative quantity, a
\* discount above the subtotal, a negative unit price and a quantity of
\* zero. new_order reads them from request.form unvalidated, and the
\* API's schema checks their types only.
OddRequests ==
    {WebRequest(<<Item(1, -1, NoPrice)>>, 0),
     WebRequest(<<Item(1, 1, NoPrice)>>, 50000),
     ApiRequest(<<Item(1, 1, -12000)>>, 0),
     ApiRequest(<<Item(1, 0, 12000)>>, 0),
     ApiRequest(<<Item(1, 1, 12000)>>, 50000)}

\* One handler thread serving the basic and the odd requests, and staff
\* making manual entries.
NextAmounts ==
    \/ \E rq \in BasicRequests \cup OddRequests : Receive("h1", rq)
    \/ Handle("h1")
    \/ \E e \in ManualEntries : new_transaction(e[1], e[2], e[3])

SpecAmounts == Init /\ [][NextAmounts]_vars

\* An API request for an order whose status staff will follow.
receive_tracked_api_order ==
    /\ Cardinality(orders) < MaxTracked
    /\ Receive("h1", ApiRequest(<<Item(1, 2, 12000)>>, 0))

\* The statuses that end an order.
FinalStatuses == {"completed", "cancelled"}

\* Every operation that the ledger lives through: orders created on both
\* paths, orders completed and cancelled, manual entries, backups and the
\* weekly cleanup, over more than the retention window.
NextLedger ==
    \/ receive_tracked_order
    \/ receive_tracked_api_order
    \/ new_order_build("h1")
    \/ create_order_build("h1")
    \/ flush("h1")
    \/ new_order_commit("h1")
    \/ create_order_commit("h1")
    \/ \E path \in {"web", "api"}, id \in OrderIds, st \in FinalStatuses :
            update_order_status(path, id, st)
    \/ \E e \in ManualEntries : new_transaction(e[1], e[2], e[3])
    \/ create_backup
    \/ weekly_cleanup_task
    \/ Pass((BACKUP_RETENTION_DAYS + 1) * Day)

SpecLedger == Init /\ [][NextLedger]_vars

\* The instants at which the token clients act: the start and a minute
\* later, and the minutes around the end of an access token's life.
TokenTimes ==
    {0, Minute} \cup {JWT_ACCESS_TOKEN_EXPIRES + k * Minute : k \in -1..2}

\* Every token a client can come to hold.
AllTokens ==
    {Token(u, t, life, type, key) :
        u \in UserIds, t \in TokenTimes,
        life \in {JWT_ACCESS_TOKEN_EXPIRES, JWT_REFRESH_TOKEN_EXPIRES},
        type \in {"access", "refresh"}, key \in {"secret", "forged"}}

\* Clients getting, forging and presenting tokens while time passes and
\* user rows change.
NextAuth ==
    \/ \E t \in TokenTimes : Pass(t)
    \/ \E u \in UserIds : get_token(u)
    \/ \E u \in UserIds : forge_token(u)
    \/ \E u \in UserIds, state \in {"active", "inactive", "absent"} : set_user(u, state)
    \/ \E token \in AllTokens : jwt_required(token)

SpecAuth == Init /\ [][NextAuth]_vars

\* Orders created on both paths while backups are copied from the live
\* database file.
NextLiveBackup ==
    \/ receive_tracked_order
    \/ receive_tracked_api_order
    \/ new_order_build("h1")
    \/ create_order_build("h1")
    \/ flush("h1")
    \/ new_order_commit("h1")
    \/ create_order_commit("h1")
    \/ \E first \in SUBSET Tables : create_backup_copy_first(first)
    \/ create_backup_copy_rest

SpecLiveBackup == Init /\ [][NextLiveBackup]_vars

\* Values of the period argument: the three periods and another word.
PeriodInputs == Periods \cup {"invalid_period"}

\* Exports asked for in the same second, a second later and a day later.
NextExport ==
    \/ \E t \in {1, Day} : Pass(t)
    \/ \E period \in PeriodInputs : export_to_excel(period)
    \/ \E period \in PeriodInputs : export_to_excel_raises(period)

SpecExport == Init /\ [][NextExport]_vars

\* The price and cost fields of a product form: -5.00, 0, 15.00 and
\* -1.00, 0 (or blank), 3.00.
PriceInputs == {-5000, 0, 15000}
CostInputs == {-1000, 0, 3000}

\* Staff creating and editing products.
NextProducts ==
    \/ \E p \in CatalogProducts, id \in CategoryIds, price \in PriceInputs, cost \in CostInputs :
            new_product_invalid(p, id, price, cost)
    \/ \E p \in CatalogProducts, id \in CategoryIds, price \in PriceInputs, cost \in CostInputs :
            new_product_valid(p, id, price, cost)
    \/ \E p \in CatalogProducts, id \in CategoryIds, price \in PriceInputs, cost \in CostInputs,
          foreign_keys \in ForeignKeys :
            edit_product_form(p, id, price, cost, foreign_keys)

SpecProducts == Init /\ [][NextProducts]_vars

\* The instant at which the API's clients come back: after the access
\* tokens of the start have expired.
ApiTimes == {JWT_ACCESS_TOKEN_EXPIRES + Minute}

\* Clients asking the API's endpoints without a token, with a token they
\* got or with one they made up, while time passes and user rows change.
NextApi ==
    \/ \E t \in ApiTimes : Pass(t)
    \/ \E u \in UserIds : get_token(u)
    \/ \E u \in UserIds : forge_token(u)
    \/ \E u \in UserIds, state \in {"active", "inactive", "absent"} : set_user(u, state)
    \/ \E endpoint \in JwtRequired, bearer \in {NoBearer} \cup AllTokens :
            api_request(endpoint, bearer)
    \/ \E bearer \in {NoBearer} \cup AllTokens, has_refresh_token \in BOOLEAN :
            refresh_token(bearer, has_refresh_token)
    \/ health_check

SpecApi == Init /\ [][NextApi]_vars

\* The instants at which the clients of the limiter act: within the first
\* minute, at its end and after it.
LimiterTimes == {Minute - 1, Minute, 2 * Minute - 1}

\* Two client addresses trying wrong passwords of the admin at the login
\* form.
NextLimiter ==
    \/ \E t \in LimiterTimes : Pass(t)
    \/ \E addr \in Addresses : login(addr, AdminId, "wrong")

SpecLimiter == Init /\ [][NextLimiter]_vars

\* The instants at which the logged-in client acts: within the session's
\* day, at its end and after it.
SessionTimes == {Hour, PERMANENT_SESSION_LIFETIME, PERMANENT_SESSION_LIFETIME + Minute}

\* One client logging in as the admin, asking for the dashboard and logging
\* out, as time passes.
NextSession ==
    \/ \E t \in SessionTimes : Pass(t)
    \/ login("a", AdminId, "right")
    \/ dashboard("a")
    \/ logout("a")

SpecSession == Init /\ [][NextSession]_vars

\* The instants at which backups and cleanups run: the next second, the
\* next day, and around the end of the retention window.
BackupTimes == {1, Day, BACKUP_RETENTION_DAYS * Day, BACKUP_RETENTION_DAYS * Day + 1,
                (BACKUP_RETENTION_DAYS + 1) * Day}

\* The retention values that cleanup_old_backups is called with.
RetentionDays == {0, BACKUP_RETENTION_DAYS}

\* The backup route, the daily backup task and the weekly cleanup task, as
\* time passes.
NextBackup ==
    \/ \E t \in BackupTimes : Pass(t)
    \/ create_backup
    \/ create_backup_failed
    \/ \E retention_days \in RetentionDays : cleanup_old_backups(retention_days)

SpecBackup == Init /\ [][NextBackup]_vars

\* One delete_category request at a time, beside the creation of
\* categories and the creation and moving of products.
NextCatalog ==
    \/ \E id \in CategoryIds : new_category(id)
    \/ \E p \in CatalogProducts, id \in CategoryIds : new_product(p, id)
    \/ \E p \in CatalogProducts, id \in CategoryIds, foreign_keys \in ForeignKeys :
            move_product(p, id, foreign_keys)
    \/ \E id \in CategoryIds : delete_category_404(id)
    \/ \E id \in CategoryIds : delete_category_check(id)
    \/ \E foreign_keys \in ForeignKeys : delete_category_commit(foreign_keys)

SpecCatalog == Init /\ [][NextCatalog]_vars

\* What a client types as a password.
Passwords == {"right", "wrong"}

\* One client trying names and passwords at the login form and at the token
\* endpoint, while user rows come, go and change their is_active flag.
try_login(u, password) ==
    /\ Len(login_log) < MaxCompared
    /\ login("a", u, password)

try_token(u, password) ==
    /\ Len(login_log) < MaxCompared
    /\ get_token_refused("a", u, password)

NextLogin ==
    \/ \E u \in UserIds, state \in {"active", "inactive", "absent"} : set_user(u, state)
    \/ \E u \in UserIds, password \in Passwords : try_login(u, password)
    \/ \E u \in UserIds, password \in Passwords : try_token(u, password)

SpecLogin == Init /\ [][NextLogin]_vars

(* ------------------------------- claims -------------------------------- *)

\* The order_items rows of an order.
ItemsOf(o) == {it \in order_items : it.order_id = o.id}

\* The sum of total_price over the order_items rows of an order.
LinesTotal(o) ==
    LET n == Cardinality(ItemsOf(o))
    IN  SumSeq([i \in 1..n |-> (CHOOSE it \in ItemsOf(o) : it.line = i).total_price])

\* The ledger rows that refer to an order as its sale.
IsSaleOf(o, t) ==
    /\ t.type = "income" /\ t.category = "sales"
    /\ t.reference_type = "order" /\ t.reference_id = o.id

\* A step in which handler h finishes its request.
Completes(h) == pc[h] # "idle" /\ pc'[h] = "idle"

\* A step in which handler h finishes its request with the order created.
Succeeds(h) == Completes(h) /\ resp'[h].status \in {"201", "flash_success"}

\* Number of order_items rows the request held by a handler asks for.
RequestedLines(l) == IF l.path = "web" THEN Len(Effective(l.items)) ELSE Len(l.items)

C2_OneSalesTransactionPerOrder ==
    \A o \in orders :
        /\ CountRows({t \in BagToSet(transactions) : IsSaleOf(o, t)}) = 1
        /\ \A t \in BagToSet(transactions) : IsSaleOf(o, t) => t.amount = o.total_amount

\* C2's case: two orders, one of them taxed, next to a manual income entry
\* of category sales.
C2_Witness ==
    /\ Cardinality(orders) = 2
    /\ \E o \in orders : o.tax_amount # 0
    /\ \E t \in BagToSet(transactions) :
            t.reference_type = "manual" /\ t.type = "income" /\ t.category = "sales"

\* C3: order creation is all or nothing.  A request that ends without
\* success leaves orders, order_items and transactions as they were (the
\* API's return for a missing product after the flush included); an order
\* row only ever appears in the store in the step of a successful request,
\* together with all the order_items rows the request asked for and its
\* ledger row; and no order_items or order ledger row appears without its
\* order.
C3_AllOrNothing ==
    [][/\ \A h \in Handlers : (Completes(h) /\ ~Succeeds(h)) => UNCHANGED store
       /\ \A o \in orders' \ orders :
            \E h \in Handlers :
                /\ Succeeds(h) /\ loc[h].id = o.id
                /\ Cardinality({it \in order_items' \ order_items : it.order_id = o.id})
                        = RequestedLines(loc[h])
                /\ CopiesIn(SalesTransaction(o), transactions')
                        = CopiesIn(SalesTransaction(o), transactions) + 1
       /\ \A it \in order_items' \ order_items :
            \E o \in orders' \ orders : it.order_id = o.id
       /\ \A t \in BagToSet(transactions') :
            (t.reference_type = "order"
                /\ CopiesIn(t, transactions') > CopiesIn(t, transactions))
            => \E o \in orders' \ orders : t.reference_id = o.id
      ]_vars

\* C3's case: an API request was answered 400 for a missing product after
\* its order row had been flushed, while the store holds another order.
C3_Witness ==
    \E h \in Handlers :
        /\ resp[h].status = "400" /\ resp[h].cause = "missing_product"
        /\ resp[h].inserts = 1
        /\ orders # {}

\* C4: no two stored orders have the same order_number, also when requests
\* run concurrently.
C4_OrderNumberUnique ==
    \A o1, o2 \in orders : o1.order_number = o2.order_number => o1 = o2

\* C4's case: two requests took the same number; one is stored and the
\* INSERT of the other was refused.
C4_Witness ==
    \E h \in Handlers :
        /\ resp[h].cause = "integrity"
        /\ orders # {}

ExpectedTax(o) == QuantizeRatio((LinesTotal(o) - o.discount_amount) * tax_rate, 100)

ValidOrderRequest(l) ==
    /\ l.items # <<>>
    /\ \A i \in 1..Len(l.items) :
            /\ l.items[i].product_id \in DOMAIN products
            /\ l.items[i].quantity >= 1

\* C7: a valid request, served alone and without a failure of the store,
\* ends with its order in the store.
C7_ValidRequestIsPersisted ==
    [][\A h \in Handlers :
            (Completes(h) /\ ValidOrderRequest(loc[h]) /\ resp'[h].cause # "exception")
            => (Succeeds(h) /\ \E o \in orders' \ orders : o.id = loc[h].id)
      ]_vars

\* C8: an API request with valid items is answered 201 whether or not its
\* items carry unit_price; a line without unit_price is stored at the
\* product's catalog price and a line with one at the supplied price.
C8_UnitPriceDefaultsToCatalog ==
    [][\A h \in Handlers :
            (/\ Completes(h) /\ loc[h].path = "api"
             /\ ValidOrderRequest(loc[h]) /\ resp'[h].cause # "exception")
            => /\ resp'[h].status = "201"
               /\ \A i \in 1..Len(loc[h].items) :
                    \E it \in order_items' \ order_items :
                        /\ it.order_id = loc[h].id /\ it.line = i
                        /\ it.unit_price =
                            Quantize(IF loc[h].items[i].unit_price = NoPrice
                                     THEN products[loc[h].items[i].product_id]
                                     ELSE loc[h].items[i].unit_price)
      ]_vars

NumberDay(o) == o.order_number[1]

\* One more than the number of orders with creation date d stored before o.
Rank(o, d) == 1 + Cardinality({o2 \in orders : o2.created_at = d /\ o2.id < o.id})

StatusRank(st) == CHOOSE i \in 1..Len(Statuses) : Statuses[i] = st

\* C11: in every step the status of an order either stays, or moves forward
\* along pending, in_progress, ready, completed, or becomes cancelled; an
\* update that would move it backwards (or out of cancelled) is not applied.
C11_StatusMovesForward ==
    [][\A o \in orders, n \in orders' :
            (o.id = n.id /\ n.status # o.status)
            => \/ n.status = "cancelled"
               \/ /\ o.status # "cancelled"
                  /\ StatusRank(n.status) > StatusRank(o.status)
      ]_vars

\* C12: completed_at is set only when the status becomes completed: a new
\* order has it empty; a step changes it only by making the order completed,
\* to the time of that step; and a step that makes an order completed
\* assigns it.
C12_CompletedAtOnlyOnCompletion ==
    [][/\ \A n \in orders' :
            (\A o \in orders : o.id # n.id) => n.completed_at = 0
       /\ \A o \in orders, n \in orders' :
            o.id = n.id =>
                /\ n.completed_at # o.completed_at
                        => (n.status = "completed" /\ n.completed_at = today)
                /\ (n.status # o.status /\ n.status = "completed")
                        => n.completed_at = today
      ]_vars

\* C12's case: an order was completed on an earlier day and has been given
\* another status since; its completed_at still tells the completion.
C12_Witness ==
    \E o \in orders :
        /\ o.completed_at # 0 /\ o.completed_at < today
        /\ o.status = "in_progress"
        /\ last_update.result \in {"200", "flash_success"}


\* A step in which a token is verified.
Verifies == verdict' # verdict

\* C13: a verification returns a user only if the token is signed with the
\* configured secret, is not past its expiry, has type 'access', and names
\* the user returned, whose row exists and is active at that moment; so a
\* refresh token and the token of a user deactivated or removed since it
\* was issued are rejected.
C13_TokenAcceptedOnlyIfValid ==
    [][(Verifies /\ verdict'.result # None) =>
            LET token == verdict'.token
            IN  /\ token.key = "secret"
                /\ now <= token.exp
                /\ token.type = "access"
                /\ verdict'.result = token.user_id
                /\ users[token.user_id] = "active"
      ]_vars

\* C13's case: the access token of a user was accepted, the user was then
\* deactivated or removed, and the same token was rejected.
C13_Witness ==
    /\ verdict.token \in tokens
    /\ verdict.token.key = "secret" /\ verdict.token.type = "access"
    /\ now < verdict.token.exp
    /\ users[verdict.token.user_id] # "active"
    /\ verdict.result = None

\* C14: an access token issued at t to a user who stays active expires at
\* t + 24 hours; it is accepted by every verification before that instant
\* and rejected by every verification after it.
C14_AccessTokenLivesOneDay ==
    [][Verifies =>
            LET token == verdict'.token
            IN  (/\ token.key = "secret" /\ token.type = "access"
                 /\ users[token.user_id] = "active")
                => /\ token.exp = token.iat + 24 * Hour
                   /\ now < token.exp => verdict'.result = token.user_id
                   /\ now > token.exp => verdict'.result = None
      ]_vars

\* C14's case: a token issued at t was rejected at t + 24h01m.
C14_Witness ==
    /\ verdict.token \in tokens
    /\ verdict.token.key = "secret" /\ verdict.token.type = "access"
    /\ users[verdict.token.user_id] = "active"
    /\ now = verdict.token.iat + 24 * Hour + Minute
    /\ verdict.result = None

\* The requests that one address made to one endpoint, in order.
RequestsOf(endpoint, addr) ==
    SelectSeq(login_log, LAMBDA e : e.endpoint = endpoint /\ e.addr = addr)

\* Requests i .. i+5 of L are six wrong-password logins within one minute.
SixWrongWithinAMinute(L, i) ==
    /\ i + 5 <= Len(L)
    /\ \A k \in 0..5 : L[i + k].fact = "wrong_password"
    /\ L[i + 5].at - L[i].at < Minute

\* The first five of the six are told of the mismatch, the sixth is refused
\* by the limiter.
FiveAnsweredSixthRefused(L, i) ==
    /\ \A k \in 0..4 : L[i + k].answer = LoginAnswer(AdminId, "wrong")
    /\ L[i + 5].answer = TooManyRequests

FailedFacts == {"no_user", "inactive", "wrong_password"}

\* C16: at the web login and at the token endpoint, the answer to a failed
\* attempt is the same status and message whether the username does not
\* exist, belongs to an inactive user or was given a wrong password.
C16_FailureAnswerIsGeneric ==
    \A i, j \in DOMAIN login_log :
        (/\ login_log[i].endpoint = login_log[j].endpoint
         /\ login_log[i].fact \in FailedFacts
         /\ login_log[j].fact \in FailedFacts
         /\ login_log[i].answer # TooManyRequests
         /\ login_log[j].answer # TooManyRequests)
        => login_log[i].answer = login_log[j].answer

\* C16's case: the login form was tried with an unknown name, with the
\* name of an inactive user and with a wrong password.
C16_Witness ==
    /\ Len(login_log) = 3
    /\ \A i \in 1..3 : login_log[i].endpoint = "login"
    /\ {login_log[i].fact : i \in 1..3} = FailedFacts

\* C17: a login_required page is served to a client only until 24 hours
\* after the login that issued the cookies it presents (session cookie and
\* remember cookie); later the request is treated as unauthenticated.
C17_SessionEndsAfterADay ==
    \A addr \in Addresses :
        page[addr].user # None => page[addr].at <= page[addr].login_at + 24 * Hour

\* The create_backup calls that succeeded, in order.
Successful == SelectSeq(invocations, LAMBDA c : c.status = "success")

\* C18: once a successful backup has been made, the file and the log row
\* of the most recent successful backup exist, whatever cleanups ran and
\* however old the backup is.
C18_NewestBackupIsKept ==
    Successful # <<>> =>
        LET newest == Successful[Len(Successful)]
        IN  /\ \E f \in backup_files : f.name = newest.filename
            /\ \E b \in backup_logs : b.id = newest.id

\* C19: every successful create_backup names its artifact differently from
\* every earlier one, also within one clock second, so that each file is
\* still the one its own invocation wrote.
C19_BackupNamesAreDistinct ==
    \A i, j \in DOMAIN Successful :
        i # j => Successful[i].filename # Successful[j].filename

\* C20: a category that has a product is not removed, and a
\* delete_category request on it is rejected and changes nothing in the
\* store; a delete_category request on a category without products removes
\* it; also when products are created in or moved into the category while
\* the request is in flight.
C20_CategoryWithProductsIsKept ==
    [][/\ \A id \in categories : ProductsOf(id) # {} => id \in categories'
       /\ delete_resp' # delete_resp =>
            LET id == delete_resp'.id
            IN  /\ (id \in categories /\ ProductsOf(id) # {}) =>
                        /\ delete_resp'.result \in {"rejected", "error"}
                        /\ UNCHANGED <<categories, product_category>>
                /\ (id \in categories /\ ProductsOf(id) = {}) =>
                        /\ delete_resp'.result = "deleted"
                        /\ id \notin categories'
      ]_vars

AnsweredUnauthenticated ==
    /\ api_resp' # api_resp
    /\ ~api_resp'.authenticated

\* C23: every endpoint of the token API other than /health and /auth/token
\* answers 401, and store data stays as it is, when the request carries no
\* bearer token or one that verification rejects.
C23_UnauthenticatedGets401 ==
    [][(AnsweredUnauthenticated /\ api_resp'.endpoint \in JwtRequired \cup Undecorated)
            => /\ api_resp'.status = "401"
               /\ UNCHANGED <<store, products, tax_rate, users, categories, product_category>>
      ]_vars

\* C25: every persisted product has price >= 0 and cost >= 0, and a
\* create or edit request with a negative price or cost is rejected and
\* leaves the products as they are.
C25_PriceAndCostNonNegative ==
    [][/\ \A p \in DOMAIN products' : products'[p] >= 0 /\ product_cost'[p] >= 0
       /\ (product_resp' # product_resp /\ (product_resp'.price < 0 \/ product_resp'.cost < 0))
            => /\ product_resp'.result \in {"invalid", "error"}
               /\ UNCHANGED <<products, product_cost, product_category>>
      ]_vars

\* C26: every persisted product's category_id names a category that exists,
\* after any sequence of product creations, product edits and category
\* deletions.
C26_ProductCategoryExists ==
    \A p \in CatalogProducts :
        product_category[p] # None => product_category[p] \in categories

\* C27: export_to_excel with a period other than 'daily', 'weekly' and
\* 'monthly' does not return a filename (it raises ValueError) and writes
\* no export file.
C27_InvalidPeriodRaisesValueError ==
    \A i \in DOMAIN exports :
        exports[i].period \notin Periods =>
            /\ exports[i].result # "returned"
            /\ \A f \in export_files : f.written_by # exports[i].id

\* C28: the export_to_excel calls for one period return pairwise different
\* filenames, and every returned file exists as its call wrote it, also
\* for calls in the same second.
C28_ExportNamesAreDistinct ==
    \A i, j \in DOMAIN exports :
        (/\ i # j
         /\ exports[i].result = "returned" /\ exports[j].result = "returned"
         /\ exports[i].period = exports[j].period)
        => /\ exports[i].filename # exports[j].filename
           /\ \E f \in export_files : f.name = exports[i].filename /\ f.written_by = i

C30_StatusUpdateChangesStatusOnly ==
    [][/\ \A o \in orders :
            /\ \E n \in orders' :
                    /\ n.id = o.id
                    /\ [n EXCEPT !.status = o.status, !.completed_at = o.completed_at] = o
            /\ {it \in order_items' : it.order_id = o.id}
                    = {it \in order_items : it.order_id = o.id}
            /\ CopiesIn(SalesTransaction(o), transactions')
                    = CopiesIn(SalesTransaction(o), transactions)
       /\ (last_update' # last_update /\ last_update'.result \in {"400", "flash_invalid"})
            => UNCHANGED orderVars
      ]_vars

\* C30's case: an order with a positive total was cancelled by a status
\* update and its sales transaction is in the ledger.
C30_Witness ==
    \E o \in orders :
        /\ o.status = "cancelled"
        /\ o.total_amount > 0
        /\ last_update = [id |-> o.id, status |-> "cancelled", result |-> "flash_success"]
        /\ BagIn(SalesTransaction(o), transactions)

====
